---- MODULE Spec2Model ----
(***************************************************************************)
(* The market-data streaming client of front-app: CryptoStreamClient as    *)
(* written in app.py (decoded updates go to a thread-safe queue that the   *)
(* dashboard drains) and in consume_stream.py (decoded updates go to the   *)
(* on_market_data callback or the default printing handler, faults to the  *)
(* optional on_connection_error observer).                                 *)
(*                                                                         *)
(* Two kinds of actor: the caller's thread, which makes the facade calls   *)
(* (subscribe, unsubscribe, start, stop, close, get_latest_data), and the  *)
(* receive-loop threads that start() launches.  A facade call is one       *)
(* atomic step except where it waits on or races with a loop thread:       *)
(* stop() waits in join(timeout=2), get_latest_data() takes the queue's    *)
(* elements one get_nowait() at a time.  A loop thread takes one step per  *)
(* statement that another thread can observe: the while test, recvfrom     *)
(* with the decoding of what it returned, the hand-over of the update.     *)
(* What the code prints is not part of the state.                          *)
(*                                                                         *)
(* The specifications share the actions: Spec (session and lifecycle, no   *)
(* datagram arrives), SpecStream (the receive path of app.py), SpecReceive *)
(* (the receive path of both files), and for what must eventually happen   *)
(* SpecJoin (Spec with the caller's join scheduled) and SpecLoop (the      *)
(* loops of app.py with the loop threads scheduled).                       *)
(***************************************************************************)
EXTENDS Integers, Sequences, FiniteSets, TLC

\* Datagrams the socket delivers in one behaviour.
MaxRecv == 3
\* Receive-loop threads that can be alive at once.
MaxThreads == 2
\* Updates update_market_data is handed beyond those the dashboard starts with.
MaxDrained == 3
\* Updates one get_latest_data call hands to update_market_data.
MaxBatch == 2
\* Keep only last 100 points
HistoryLimit == 100

Threads == 1..MaxThreads
\* receive_thread = None in __init__
None == 0

VARIABLES
    variant,             \* "app" (app.py) or "consume" (consume_stream.py)
    on_market_data,      \* consume_stream.py: is the callback set
    on_connection_error, \* consume_stream.py: is the observer set
    sockOpen,            \* self.socket not yet close()d
    subscribed_symbols,  \* self.subscribed_symbols, a list
    is_running,          \* self.is_running
    receive_thread,      \* self.receive_thread: a thread or None
    data_queue,          \* self.data_queue (app.py)
    tpc,                 \* where each loop thread is in _receive_data
    tdata,               \* the market_data local of each loop thread
    late,                \* per loop thread: updates it handed on while
                         \* is_running was false
    callerPc,            \* where the caller's thread is
    data_list,           \* the data_list local of get_latest_data
    nRecv,               \* datagrams delivered by the socket so far
    rcvd,                \* per datagram, in socket order: did it decode
    returned,            \* concatenation of the lists get_latest_data returned
    delivered,           \* updates the loops handed on, in hand-over order:
                         \* queue.put (app), the handler call (consume)
    lastOp,              \* the facade call made last
    wasRunning,          \* is_running when that call was made
    outbox,              \* the command datagrams that call passed to sendto
    ret,                 \* what that call returned: "True", "False", "None"
    raised,              \* that call raised to its caller
    crypto_client,       \* st.session_state.crypto_client is not None
    market_data,         \* st.session_state.market_data, per symbol
    price_history,       \* st.session_state.price_history, per symbol
    drained,             \* the updates get_latest_data returned to
                         \* update_market_data so far, in order
    streamlit,           \* 'import streamlit' succeeds in this process
    db_client,           \* db_client.py's global _db_client
    cached_client,       \* the client st.cache_resource holds
    wrapper,             \* the synchronous wrapper being called
    dbArg,               \* its argument: limit, run_id, or "none"
    dbPc,                \* where that call is
    attempts,            \* outcomes of its attempts so far, in order
    cleanups,            \* cleanup_db_client() calls it made
    dbRet                \* what it returned, "raised" when it raised

config == <<variant, on_market_data, on_connection_error>>
client == <<sockOpen, subscribed_symbols, is_running, receive_thread, data_queue>>
loops  == <<tpc, tdata, late>>
caller == <<callerPc, data_list>>
wire   == <<nRecv, rcvd>>
ghost  == <<returned, delivered, lastOp, wasRunning, outbox, ret, raised>>
dashboard == <<crypto_client, market_data, price_history, drained>>
database == <<streamlit, db_client, cached_client, wrapper, dbArg, dbPc,
              attempts, cleanups, dbRet>>
vars   == <<config, client, loops, caller, wire, ghost, dashboard, database>>

-----------------------------------------------------------------------------
(* Symbols: strings as sequences of characters, str.upper() per character. *)

UpperChar(c) ==
    CASE c = "b" -> "B"
      [] c = "t" -> "T"
      [] c = "c" -> "C"
      [] c = "e" -> "E"
      [] c = "h" -> "H"
      [] OTHER   -> c

Upper(s) == [i \in 1..Len(s) |-> UpperChar(s[i])]

\* What callers pass as a symbol.
SymbolInputs ==
    { <<"b", "t", "c">>, <<"B", "T", "C">>, <<"B", "t", "c">>, <<"e", "t", "h">> }

Range(s) == { s[i] : i \in 1..Len(s) }

\* list.remove(x): drops the first occurrence
RECURSIVE RemoveFirst(_, _)
RemoveFirst(list, x) ==
    IF list = <<>> THEN <<>>
    ELSE IF Head(list) = x THEN Tail(list)
    ELSE <<Head(list)>> \o RemoveFirst(Tail(list), x)

\* Mutant of Command: the symbol goes into the request as passed.
CommandAsPassed(action, symbol, sent) ==
    [action |-> action, symbol |-> symbol, sent |-> sent]

\* The request dict of subscribe / unsubscribe; sent records whether sendto
\* returned without raising.
Command(action, symbol, sent) ==
    [action |-> action, symbol |-> Upper(symbol), sent |-> sent]

-----------------------------------------------------------------------------
(* Inbound datagrams and MarketData.from_dict.                             *)

Fields == {"symbol", "price", "volume", "bid", "ask", "timestamp", "exchange"}

\* A datagram by what decoding looks at: is it UTF-8, is it JSON, is the JSON
\* value an object, which keys it has, do the values have the declared types.
Dgram(utf8, json, obj, keys, typed) ==
    [utf8 |-> utf8, json |-> json, obj |-> obj, keys |-> keys, typed |-> typed]

Datagrams ==
    { Dgram(TRUE, TRUE, TRUE, Fields, TRUE),                  \* a valid update
      Dgram(TRUE, TRUE, TRUE, Fields, FALSE),                 \* price is a string
      Dgram(FALSE, FALSE, FALSE, {}, FALSE),                  \* not UTF-8
      Dgram(TRUE, FALSE, FALSE, {}, FALSE),                   \* not JSON
      Dgram(TRUE, TRUE, FALSE, {}, FALSE),                    \* a JSON array
      Dgram(TRUE, TRUE, TRUE, Fields \ {"exchange"}, TRUE),   \* a field missing
      Dgram(TRUE, TRUE, TRUE, Fields \cup {"extra"}, TRUE) }  \* an unknown field

\* data.decode('utf-8'), json.loads, MarketData.from_dict = cls(**data):
\* the dataclass constructor checks the keyword names, not the value types.
Decode(d) ==
    IF ~d.utf8 THEN "UnicodeDecodeError"
    ELSE IF ~d.json THEN "JSONDecodeError"
    ELSE IF ~d.obj \/ d.keys # Fields THEN "TypeError"
    ELSE "ok"

NoItem == [id |-> 0, d |-> Dgram(FALSE, FALSE, FALSE, {}, FALSE)]

-----------------------------------------------------------------------------
(* The dashboard's session state (app.py) and update_market_data.          *)

\* The symbols the updates carry.
DataSymbols == {"BTC", "ETH"}

\* An update as update_market_data sees it: its symbol, which update it is
\* (standing for price, volume, bid, ask and timestamp), and whether
\* datetime.fromtimestamp(data.timestamp / 1000) returns: it raises on a
\* timestamp that is not a number or is out of the range of dates.
Update(symbol, id, dated) == [symbol |-> symbol, id |-> id, dated |-> dated]

\* market_data has no key for the symbol
NoUpdate == Update("", 0, TRUE)

\* The dict appended to the history: timestamp, price, volume, bid, ask.
Entry(data) == [id |-> data.id]

\* The body of the for loop for one update, on st = [market_data,
\* price_history, raised].
UpdateOne(st, data) ==
    LET md == [st.market_data EXCEPT ![data.symbol] = data]
        h  == Append(st.price_history[data.symbol], Entry(data))
    IN  IF ~data.dated
        THEN [market_data |-> md, price_history |-> st.price_history,
              raised |-> TRUE]
        ELSE [market_data |-> md,
              price_history |->
                  [st.price_history EXCEPT ![data.symbol] =
                      IF Len(h) > HistoryLimit THEN Tail(h) ELSE h],
              raised |-> FALSE]

\* for data in new_data: ...; an update that raises ends the loop.
RECURSIVE UpdateAll(_, _)
UpdateAll(st, new_data) ==
    IF new_data = <<>> \/ st.raised THEN st
    ELSE UpdateAll(UpdateOne(st, Head(new_data)), Tail(new_data))

\* The lists get_latest_data can return next: up to MaxBatch updates, the
\* ids going on from those drained so far.
NewData ==
    UNION { { [i \in 1..n |-> Update(f[i][1], Len(drained) + i, f[i][2])] :
                f \in [1..n -> DataSymbols \X BOOLEAN] } : n \in 0..MaxBatch }

\* The updates of one symbol the dashboard has seen when it is first
\* looked at, two short of a full history.
Seen == IF Len(drained) >= HistoryLimit - 2 THEN HistoryLimit - 2 ELSE 0

update_market_data ==
    /\ IF ~crypto_client
       THEN /\ raised' = FALSE
            /\ UNCHANGED <<market_data, price_history, drained>>
       ELSE \E new_data \in NewData :
            LET st == UpdateAll([market_data |-> market_data,
                                 price_history |-> price_history,
                                 raised |-> FALSE], new_data)
            IN  /\ Len(drained) + Len(new_data) <= Seen + MaxDrained
                /\ drained' = drained \o new_data
                /\ market_data' = st.market_data
                /\ price_history' = st.price_history
                /\ raised' = st.raised
    /\ lastOp' = "update_market_data"
    /\ UNCHANGED <<config, client, loops, caller, wire, returned, delivered,
                   wasRunning, outbox, ret, crypto_client, database>>

\* The session state when the script first runs.
InitSessionState ==
    /\ crypto_client = FALSE
    /\ market_data = [s \in DataSymbols |-> NoUpdate]
    /\ price_history = [s \in DataSymbols |-> <<>>]
    /\ drained = <<>>

-----------------------------------------------------------------------------
(* The synchronous database wrappers (utils/db_client.py).                 *)

Wrappers == {"get_recent_simulations_sync", "get_simulation_by_id_sync",
             "check_db_health_sync"}

\* A client is "None" (not created), "pooled" (connection_pool set) or
\* "unpooled" (connection_pool is None).

\* ensure_connected() and the query on a client that exists: what becomes
\* of the client, and whether the coroutine returned. The pool may be
\* kept, replaced by a new one, or lost when connect() raises after
\* disconnect(); the query or pool.close() may raise with the pool kept.
\* health_check() catches what its own acquire or reconnect raises and
\* returns False.
Operate(w) ==
    { [state |-> "pooled", ok |-> TRUE],
      [state |-> "pooled", ok |-> FALSE],
      [state |-> "unpooled", ok |-> FALSE] }
    \cup IF w = "check_db_health_sync"
         THEN { [state |-> "unpooled", ok |-> TRUE] }
         ELSE {}

\* get_streamlit_db_client(): create_db_client() caches the client only
\* when connect() returned.
CachedOutcomes(w) ==
    IF cached_client = "None"
    THEN { [state |-> "None", ok |-> FALSE] } \cup Operate(w)
    ELSE Operate(w)

\* get_db_client(): _db_client is assigned before connect() is awaited.
GlobalOutcomes(w) ==
    IF db_client = "None"
    THEN { [state |-> "unpooled", ok |-> FALSE] } \cup Operate(w)
    ELSE Operate(w)

\* What the wrapper returns when its operation returned, the client left
\* in the given state.
Values(w, state) ==
    CASE w = "check_db_health_sync" ->
             IF state = "pooled" THEN {"True", "False"} ELSE {"False"}
      [] w = "get_simulation_by_id_sync" -> {"row", "None"}
      [] OTHER -> {"rows"}

\* What the wrapper does in its inner except branch.
GiveUp(w) == IF w = "check_db_health_sync" THEN "False" ELSE "raised"

\* The arguments a wrapper is called with: limit (10 when left out), run_id.
Args(w) ==
    CASE w = "get_recent_simulations_sync" -> {"1", "10"}
      [] w = "get_simulation_by_id_sync" -> {"run-1", "run-2"}
      [] OTHER -> {"none"}

\* The call of a wrapper, up to its first attempt.
CallSync(w, arg) ==
    /\ dbPc = "idle"
    /\ wrapper' = w
    /\ dbArg' = arg
    /\ dbPc' = "try"
    /\ attempts' = <<>>
    /\ cleanups' = 0
    /\ dbRet' = "none"
    /\ UNCHANGED <<config, client, loops, caller, wire, ghost, dashboard,
                   streamlit, db_client, cached_client>>

\* One run of the wrapper's inner function: the first attempt, or the
\* retry after the cleanup.
Attempt ==
    /\ dbPc \in {"try", "retry"}
    /\ \E o \in IF streamlit THEN CachedOutcomes(wrapper)
                             ELSE GlobalOutcomes(wrapper) :
        /\ IF streamlit
           THEN cached_client' = o.state /\ UNCHANGED db_client
           ELSE db_client' = o.state /\ UNCHANGED cached_client
        /\ attempts' = Append(attempts, o.ok)
        /\ IF o.ok
           THEN /\ dbRet' \in Values(wrapper, o.state)
                /\ dbPc' = "idle"
           ELSE IF dbPc = "try"
           THEN /\ dbPc' = "cleanup"
                /\ UNCHANGED dbRet
           ELSE /\ dbRet' = GiveUp(wrapper)
                /\ dbPc' = "idle"
    /\ UNCHANGED <<config, client, loops, caller, wire, ghost, dashboard,
                   streamlit, wrapper, dbArg, cleanups>>

\* run_async(cleanup_db_client()) inside the inner try: disconnect() of a
\* pooled global client returns, or pool.close() raises before the pool and
\* the global are reset and the wrapper's inner except branch runs.
Cleanup ==
    /\ dbPc = "cleanup"
    /\ cleanups' = cleanups + 1
    /\ IF db_client = "pooled"
       THEN \/ /\ db_client' = "None"
               /\ dbPc' = "retry"
               /\ UNCHANGED dbRet
            \/ /\ dbRet' = GiveUp(wrapper)
               /\ dbPc' = "idle"
               /\ UNCHANGED db_client
       ELSE /\ dbPc' = "retry"
            /\ UNCHANGED <<db_client, dbRet>>
    /\ UNCHANGED <<config, client, loops, caller, wire, ghost, dashboard,
                   streamlit, cached_client, wrapper, dbArg, attempts>>

\* The module when it is imported, no wrapper called yet.
InitModule ==
    /\ db_client = "None"
    /\ cached_client = "None"
    /\ wrapper = "none"
    /\ dbArg = "none"
    /\ dbPc = "idle"
    /\ attempts = <<>>
    /\ cleanups = 0
    /\ dbRet = "none"

\* In the dashboard's process streamlit is importable.
InitDatabase == InitModule /\ streamlit = TRUE

-----------------------------------------------------------------------------
InitFacade ==
    /\ variant \in {"app", "consume"}
    /\ on_market_data \in IF variant = "consume" THEN BOOLEAN ELSE {FALSE}
    /\ on_connection_error \in IF variant = "consume" THEN BOOLEAN ELSE {FALSE}
    /\ sockOpen = TRUE
    /\ subscribed_symbols = <<>>
    /\ is_running = FALSE
    /\ receive_thread = None
    /\ data_queue = <<>>
    /\ tpc = [t \in Threads |-> "none"]
    /\ tdata = [t \in Threads |-> NoItem]
    /\ late = [t \in Threads |-> 0]
    /\ callerPc = "idle"
    /\ data_list = <<>>
    /\ nRecv = 0
    /\ rcvd = <<>>
    /\ returned = <<>>
    /\ delivered = <<>>
    /\ lastOp = "init"
    /\ wasRunning = FALSE
    /\ outbox = <<>>
    /\ ret = "None"
    /\ raised = FALSE

Init == InitFacade /\ InitSessionState /\ InitDatabase

\* The wrappers in a process with streamlit or without it.
InitDb ==
    /\ InitFacade
    /\ variant = "app"
    /\ InitSessionState
    /\ InitModule
    /\ streamlit \in BOOLEAN

NextDb ==
    \/ \E w \in Wrappers : \E arg \in Args(w) : CallSync(w, arg)
    \/ Attempt
    \/ Cleanup

SpecDb == InitDb /\ [][NextDb]_vars

\* The dashboard at its first run, or with a client after HistoryLimit - 2
\* updates of BTC were drained and dated.
InitDashboard ==
    /\ InitFacade
    /\ variant = "app"
    /\ InitDatabase
    /\ \/ InitSessionState
       \/ /\ crypto_client = TRUE
          /\ \E n \in {0, HistoryLimit - 2} :
               LET seen == [i \in 1..n |-> Update("BTC", i, TRUE)]
                   st == UpdateAll([market_data |-> [s \in DataSymbols |->
                                                        NoUpdate],
                                    price_history |-> [s \in DataSymbols |->
                                                          <<>>],
                                    raised |-> FALSE], seen)
               IN  /\ drained = seen
                   /\ market_data = st.market_data
                   /\ price_history = st.price_history

NextDashboard == update_market_data

SpecDashboard == InitDashboard /\ [][NextDashboard]_vars

-----------------------------------------------------------------------------
(* The send path.                                                          *)

\* How one subscribe / unsubscribe call can end: "ok" sendto returned;
\* "fail" sendto raised (always on a closed socket) and the except branch
\* returned False; "raise" sendto raised and the on_connection_error
\* observer called in the except branch raised in turn.
CallOutcomes ==
    (IF sockOpen THEN {"ok"} ELSE {})
        \cup {"fail"}
        \cup (IF variant = "consume" /\ on_connection_error THEN {"raise"} ELSE {})

RetOf(o) == CASE o = "ok" -> "True" [] o = "fail" -> "False" [] OTHER -> "None"

\* Mutant of SubscribeList: the membership test on the symbol as passed.
SubscribeListAsPassed(list, symbol) ==
    IF symbol \notin Range(list) THEN Append(list, Upper(symbol)) ELSE list

SubscribeList(list, symbol) ==
    IF Upper(symbol) \notin Range(list) THEN Append(list, Upper(symbol)) ELSE list

\* Mutant of UnsubscribeList: looks for the symbol as passed.
UnsubscribeListAsPassed(list, symbol) ==
    IF symbol \in Range(list) THEN RemoveFirst(list, symbol) ELSE list

UnsubscribeList(list, symbol) ==
    IF Upper(symbol) \in Range(list) THEN RemoveFirst(list, Upper(symbol)) ELSE list

\* Mutant of subscribe: the symbol is appended before sendto is called.
subscribeEager(symbol) ==
    /\ callerPc = "idle"
    /\ \E o \in CallOutcomes :
        /\ outbox' = << Command("start", symbol, o = "ok") >>
        /\ subscribed_symbols' = SubscribeList(subscribed_symbols, symbol)
        /\ ret' = RetOf(o)
        /\ raised' = (o = "raise")
    /\ lastOp' = "subscribe"
    /\ wasRunning' = is_running
    /\ UNCHANGED <<config, dashboard, database, sockOpen, is_running, receive_thread, data_queue,
                   loops, caller, wire, returned, delivered>>

subscribe(symbol) ==
    /\ callerPc = "idle"
    /\ \E o \in CallOutcomes :
        /\ outbox' = << Command("start", symbol, o = "ok") >>
        /\ subscribed_symbols' =
               IF o = "ok" THEN SubscribeList(subscribed_symbols, symbol)
               ELSE subscribed_symbols
        /\ ret' = RetOf(o)
        /\ raised' = (o = "raise")
    /\ lastOp' = "subscribe"
    /\ wasRunning' = is_running
    /\ UNCHANGED <<config, dashboard, database, sockOpen, is_running, receive_thread, data_queue,
                   loops, caller, wire, returned, delivered>>

\* One unsubscribe call on the state st = [list, sent, raised].
UnsubStep(st, symbol, o) ==
    [ list   |-> IF o = "ok" THEN UnsubscribeList(st.list, symbol) ELSE st.list,
      sent   |-> Append(st.sent, Command("stop", symbol, o = "ok")),
      raised |-> (o = "raise") ]

unsubscribe(symbol) ==
    /\ callerPc = "idle"
    /\ \E o \in CallOutcomes :
        LET r == UnsubStep([list |-> subscribed_symbols, sent |-> <<>>,
                            raised |-> FALSE], symbol, o)
        IN  /\ outbox' = r.sent
            /\ subscribed_symbols' = r.list
            /\ ret' = RetOf(o)
            /\ raised' = r.raised
    /\ lastOp' = "unsubscribe"
    /\ wasRunning' = is_running
    /\ UNCHANGED <<config, dashboard, database, sockOpen, is_running, receive_thread, data_queue,
                   loops, caller, wire, returned, delivered>>

-----------------------------------------------------------------------------
(* Lifecycle: start, stop, close.                                          *)

Alive(t) == tpc[t] \in {"check", "recv", "put"}

\* A thread object for threading.Thread(...): a slot no live thread holds.
FreeThreads == { t \in Threads : ~Alive(t) }
NewThread == CHOOSE t \in FreeThreads : \A u \in FreeThreads : t <= u

\* Mutant of start: no is_running test.
startUnguarded ==
    /\ callerPc = "idle"
    /\ FreeThreads # {}
    /\ is_running' = TRUE
    /\ receive_thread' = NewThread
    /\ tpc' = [tpc EXCEPT ![NewThread] = "check"]
    /\ tdata' = [tdata EXCEPT ![NewThread] = NoItem]
    /\ late' = [t \in Threads |-> 0]
    /\ lastOp' = "start"
    /\ wasRunning' = is_running
    /\ outbox' = <<>>
    /\ ret' = "None"
    /\ raised' = FALSE
    /\ UNCHANGED <<config, dashboard, database, sockOpen, subscribed_symbols, data_queue, caller,
                   wire, returned, delivered>>

start ==
    /\ callerPc = "idle"
    /\ IF is_running
       THEN UNCHANGED <<is_running, receive_thread, loops>>
       ELSE /\ FreeThreads # {}
            /\ is_running' = TRUE
            /\ receive_thread' = NewThread
            /\ tpc' = [tpc EXCEPT ![NewThread] = "check"]
            /\ tdata' = [tdata EXCEPT ![NewThread] = NoItem]
            /\ late' = [t \in Threads |-> 0]
    /\ lastOp' = "start"
    /\ wasRunning' = is_running
    /\ outbox' = <<>>
    /\ ret' = "None"
    /\ raised' = FALSE
    /\ UNCHANGED <<config, dashboard, database, sockOpen, subscribed_symbols, data_queue, caller,
                   wire, returned, delivered>>

\* Mutant of StopLoop: a call that returns False ends the loop as well.
RECURSIVE StopLoopUntilFailure(_, _, _)
StopLoopUntilFailure(snapshot, outs, st) ==
    IF snapshot = <<>> \/ st.raised
           \/ (st.sent # <<>> /\ ~st.sent[Len(st.sent)].sent)
    THEN st
    ELSE StopLoopUntilFailure(Tail(snapshot), Tail(outs),
                              UnsubStep(st, Head(snapshot), Head(outs)))

\* for symbol in self.subscribed_symbols.copy(): self.unsubscribe(symbol)
\* with outs[i] the way the i-th call ends; a call that raises ends the loop.
RECURSIVE StopLoop(_, _, _)
StopLoop(snapshot, outs, st) ==
    IF snapshot = <<>> \/ st.raised THEN st
    ELSE StopLoop(Tail(snapshot), Tail(outs),
                  UnsubStep(st, Head(snapshot), Head(outs)))

\* Mutant of StopBody: no is_running test.
StopBodyUnguarded(thenClose) ==
    \E outs \in [1..Len(subscribed_symbols) -> CallOutcomes] :
    LET r == StopLoop(subscribed_symbols, outs,
                      [list |-> subscribed_symbols, sent |-> <<>>,
                       raised |-> FALSE])
    IN  /\ is_running' = FALSE
        /\ subscribed_symbols' = r.list
        /\ outbox' = r.sent
        /\ raised' = r.raised
        /\ IF r.raised
           THEN UNCHANGED <<sockOpen, callerPc>>
           ELSE IF receive_thread # None
           THEN /\ callerPc' = IF thenClose THEN "join_close" ELSE "join_stop"
                /\ UNCHANGED sockOpen
           ELSE /\ sockOpen' = (sockOpen /\ ~thenClose)
                /\ UNCHANGED callerPc

\* Mutant of StopBody: close() releases the socket first and calls stop()
\* after, so the commands of the shutdown meet a closed socket.
StopBodyReleasesFirst(thenClose) ==
    IF ~is_running
    THEN /\ outbox' = <<>>
         /\ raised' = FALSE
         /\ sockOpen' = (sockOpen /\ ~thenClose)
         /\ UNCHANGED <<is_running, subscribed_symbols, callerPc>>
    ELSE \E outs \in [1..Len(subscribed_symbols) ->
                         IF thenClose THEN CallOutcomes \ {"ok"}
                         ELSE CallOutcomes] :
         LET r == StopLoop(subscribed_symbols, outs,
                           [list |-> subscribed_symbols, sent |-> <<>>,
                            raised |-> FALSE])
         IN  /\ is_running' = FALSE
             /\ subscribed_symbols' = r.list
             /\ outbox' = r.sent
             /\ raised' = r.raised
             /\ sockOpen' = (sockOpen /\ ~thenClose)
             /\ callerPc' = IF r.raised \/ receive_thread = None THEN callerPc
                            ELSE IF thenClose THEN "join_close" ELSE "join_stop"

\* stop(), up to where it waits in join; thenClose: called from close()
\* (app.py) or __exit__ (consume_stream.py), socket.close() follows.
StopBody(thenClose) ==
    IF ~is_running
    THEN /\ outbox' = <<>>
         /\ raised' = FALSE
         /\ sockOpen' = (sockOpen /\ ~thenClose)
         /\ UNCHANGED <<is_running, subscribed_symbols, callerPc>>
    ELSE \E outs \in [1..Len(subscribed_symbols) -> CallOutcomes] :
         LET r == StopLoop(subscribed_symbols, outs,
                           [list |-> subscribed_symbols, sent |-> <<>>,
                            raised |-> FALSE])
         IN  /\ is_running' = FALSE
             /\ subscribed_symbols' = r.list
             /\ outbox' = r.sent
             /\ raised' = r.raised
             /\ IF r.raised
                THEN UNCHANGED <<sockOpen, callerPc>>
                ELSE IF receive_thread # None
                THEN /\ callerPc' = IF thenClose THEN "join_close" ELSE "join_stop"
                     /\ UNCHANGED sockOpen
                ELSE /\ sockOpen' = (sockOpen /\ ~thenClose)
                     /\ UNCHANGED callerPc

stop ==
    /\ callerPc = "idle"
    /\ StopBody(FALSE)
    /\ lastOp' = "stop"
    /\ wasRunning' = is_running
    /\ ret' = "None"
    /\ UNCHANGED <<config, dashboard, database, receive_thread, data_queue, loops, data_list, wire,
                   returned, delivered>>

\* Mutant of close: stop() without the socket.close() that follows it.
closeLeavesSocket ==
    /\ callerPc = "idle"
    /\ StopBody(FALSE)
    /\ lastOp' = "close"
    /\ wasRunning' = is_running
    /\ ret' = "None"
    /\ UNCHANGED <<config, dashboard, database, receive_thread, data_queue, loops, data_list, wire,
                   returned, delivered>>

close ==
    /\ callerPc = "idle"
    /\ StopBody(TRUE)
    /\ lastOp' = "close"
    /\ wasRunning' = is_running
    /\ ret' = "None"
    /\ UNCHANGED <<config, dashboard, database, receive_thread, data_queue, loops, data_list, wire,
                   returned, delivered>>

\* Mutant of AfterJoin: the socket release of close() empties the list.
AfterJoinClearsList ==
    /\ sockOpen' = (sockOpen /\ callerPc # "join_close")
    /\ subscribed_symbols' =
           IF callerPc = "join_close" THEN <<>> ELSE subscribed_symbols
    /\ callerPc' = "idle"
    /\ UNCHANGED <<config, dashboard, database, is_running, receive_thread, data_queue, loops,
                   data_list, wire, ghost>>

\* What follows the join in stop(): nothing, or in close() socket.close().
AfterJoin ==
    /\ sockOpen' = (sockOpen /\ callerPc # "join_close")
    /\ callerPc' = "idle"
    /\ UNCHANGED <<config, dashboard, database, subscribed_symbols, is_running, receive_thread,
                   data_queue, loops, data_list, wire, ghost>>

\* Mutant of JoinTimeout: join() without a timeout, which returns only once
\* the thread has ended.
JoinNoTimeout ==
    /\ callerPc \in {"join_stop", "join_close"}
    /\ ~Alive(receive_thread)
    /\ AfterJoin

\* receive_thread.join(timeout=2) returns because the thread has ended
JoinExited ==
    /\ callerPc \in {"join_stop", "join_close"}
    /\ ~Alive(receive_thread)
    /\ AfterJoin

\* ... or because the two seconds are over
JoinTimeout ==
    /\ callerPc \in {"join_stop", "join_close"}
    /\ Alive(receive_thread)
    /\ AfterJoin

-----------------------------------------------------------------------------
(* The receive loop, _receive_data, one thread t.                          *)

\* Mutant of LoopCheck: while True
LoopCheckNoFlag(t) ==
    /\ tpc[t] = "check"
    /\ tpc' = [tpc EXCEPT ![t] = "recv"]
    /\ UNCHANGED <<config, dashboard, database, client, tdata, late, caller, wire, ghost>>

\* while self.is_running
LoopCheck(t) ==
    /\ tpc[t] = "check"
    /\ tpc' = [tpc EXCEPT ![t] = IF is_running THEN "recv" ELSE "done"]
    /\ late' = [late EXCEPT ![t] = 0]
    /\ UNCHANGED <<config, dashboard, database, client, tdata, caller, wire, ghost>>

\* Where the thread goes from an except branch: JSONDecodeError is printed;
\* any other Exception is printed and, in consume_stream.py, passed to the
\* on_connection_error observer, which may raise out of the thread.
AfterException(exc) ==
    IF exc # "JSONDecodeError" /\ variant = "consume" /\ on_connection_error
    THEN {"check", "died"}
    ELSE {"check"}

\* recvfrom returns a datagram, one of dgrams, which is decoded
RecvDatagram(t, dgrams) ==
    /\ tpc[t] = "recv"
    /\ sockOpen
    /\ nRecv < MaxRecv
    /\ nRecv' = nRecv + 1
    /\ \E d \in dgrams :
        IF Decode(d) = "ok"
        THEN /\ tdata' = [tdata EXCEPT ![t] = [id |-> nRecv + 1, d |-> d]]
             /\ tpc' = [tpc EXCEPT ![t] = "put"]
             /\ rcvd' = Append(rcvd, TRUE)
        ELSE /\ \E pc \in AfterException(Decode(d)) : tpc' = [tpc EXCEPT ![t] = pc]
             /\ rcvd' = Append(rcvd, FALSE)
             /\ UNCHANGED tdata
    /\ UNCHANGED <<config, dashboard, database, client, late, caller, ghost>>

\* Mutant of RecvTimeout: socket.timeout falls into the except Exception
\* branch, which prints and calls the observer.
RecvTimeoutReported(t) ==
    /\ tpc[t] = "recv"
    /\ sockOpen
    /\ \E pc \in AfterException("timeout") : tpc' = [tpc EXCEPT ![t] = pc]
    /\ UNCHANGED <<config, dashboard, database, client, tdata, late, caller, wire, ghost>>

\* recvfrom raises socket.timeout: continue (on a closed socket recvfrom
\* raises OSError at once instead)
RecvTimeout(t) ==
    /\ tpc[t] = "recv"
    /\ sockOpen
    /\ tpc' = [tpc EXCEPT ![t] = "check"]
    /\ UNCHANGED <<config, dashboard, database, client, tdata, late, caller, wire, ghost>>

\* recvfrom raises OSError: a fault of the open socket, or the socket closed
RecvError(t) ==
    /\ tpc[t] = "recv"
    /\ \E pc \in AfterException("OSError") : tpc' = [tpc EXCEPT ![t] = pc]
    /\ UNCHANGED <<config, dashboard, database, client, tdata, late, caller, wire, ghost>>

\* app.py: self.data_queue.put(market_data)
Put(t) ==
    /\ variant = "app"
    /\ tpc[t] = "put"
    /\ data_queue' = Append(data_queue, tdata[t])
    /\ delivered' = Append(delivered, tdata[t])
    /\ tpc' = [tpc EXCEPT ![t] = "check"]
    /\ tdata' = [tdata EXCEPT ![t] = NoItem]
    /\ late' = [late EXCEPT ![t] = IF is_running THEN @ ELSE @ + 1]
    /\ UNCHANGED <<config, dashboard, database, sockOpen, subscribed_symbols, is_running,
                   receive_thread, caller, wire, returned, lastOp, wasRunning,
                   outbox, ret, raised>>

\* consume_stream.py: on_market_data(market_data) returns or raises; without
\* a callback _default_data_handler formats price, volume, bid, ask with
\* :.4f / :.2f, which raises on a value that is not a number, and the
\* timestamp with datetime.fromtimestamp, which raises on one out of range.
HandlerRaises(item) ==
    IF on_market_data \/ item.d.typed THEN BOOLEAN ELSE {TRUE}

Handle(t) ==
    /\ variant = "consume"
    /\ tpc[t] = "put"
    /\ delivered' = Append(delivered, tdata[t])
    /\ \E fails \in HandlerRaises(tdata[t]) :
        IF fails
        THEN \E pc \in AfterException("Exception") : tpc' = [tpc EXCEPT ![t] = pc]
        ELSE tpc' = [tpc EXCEPT ![t] = "check"]
    /\ tdata' = [tdata EXCEPT ![t] = NoItem]
    /\ late' = [late EXCEPT ![t] = IF is_running THEN @ ELSE @ + 1]
    /\ UNCHANGED <<config, dashboard, database, client, caller, wire, returned, lastOp, wasRunning,
                   outbox, ret, raised>>

-----------------------------------------------------------------------------
(* get_latest_data (app.py).                                               *)

\* data_list = []
DrainBegin ==
    /\ variant = "app"
    /\ callerPc = "idle"
    /\ callerPc' = "drain"
    /\ data_list' = <<>>
    /\ lastOp' = "drain"
    /\ wasRunning' = is_running
    /\ outbox' = <<>>
    /\ ret' = "None"
    /\ raised' = FALSE
    /\ UNCHANGED <<config, dashboard, database, client, loops, wire, returned, delivered>>

\* Mutant of DrainGet: reads the head of the queue and leaves it there.
DrainGetPeek ==
    /\ callerPc = "drain"
    /\ data_queue # <<>>
    /\ data_list' = Append(data_list, Head(data_queue))
    /\ UNCHANGED <<config, dashboard, database, client, loops, callerPc, wire, ghost>>

\* data_list.append(self.data_queue.get_nowait())
DrainGet ==
    /\ callerPc = "drain"
    /\ data_queue # <<>>
    /\ data_list' = Append(data_list, Head(data_queue))
    /\ data_queue' = Tail(data_queue)
    /\ UNCHANGED <<config, dashboard, database, sockOpen, subscribed_symbols, is_running,
                   receive_thread, loops, callerPc, wire, ghost>>

\* Mutant of DrainReturn: returns once it holds an element, empty queue or not.
DrainReturnEarly ==
    /\ callerPc = "drain"
    /\ data_queue = <<>> \/ data_list # <<>>
    /\ callerPc' = "idle"
    /\ returned' = returned \o data_list
    /\ data_list' = <<>>
    /\ UNCHANGED <<config, dashboard, database, client, loops, wire, delivered, lastOp, wasRunning,
                   outbox, ret, raised>>

\* Mutant of DrainReturn: data_queue.get(), which waits on an empty queue
\* and never raises queue.Empty.
DrainReturnBlocked ==
    /\ callerPc = "drain"
    /\ data_queue = <<>>
    /\ FALSE
    /\ UNCHANGED vars

\* get_nowait raises queue.Empty: return data_list
DrainReturn ==
    /\ callerPc = "drain"
    /\ data_queue = <<>>
    /\ callerPc' = "idle"
    /\ returned' = returned \o data_list
    /\ data_list' = <<>>
    /\ UNCHANGED <<config, dashboard, database, client, loops, wire, delivered, lastOp, wasRunning,
                   outbox, ret, raised>>

-----------------------------------------------------------------------------
(* The session and lifecycle of a client to which no datagram arrives: the *)
(* caller subscribes, unsubscribes, starts, stops and closes while the     *)
(* loops wake from recvfrom on timeouts and socket faults only.            *)

InitSession == Init /\ ~on_market_data

Next ==
    \/ \E s \in SymbolInputs : subscribe(s)
    \/ \E s \in SymbolInputs : unsubscribe(s)
    \/ start
    \/ stop
    \/ close
    \/ JoinExited
    \/ JoinTimeout
    \/ \E t \in Threads : LoopCheck(t)
    \/ \E t \in Threads : RecvTimeout(t)
    \/ \E t \in Threads : RecvError(t)

Spec == InitSession /\ [][Next]_vars

(* The same with the caller's thread scheduled: a join(timeout=2) that can  *)
(* return, because the thread has ended or the two seconds are over, does  *)
(* return.  Nothing is assumed of the loop threads, which may stay in      *)
(* recvfrom or never be scheduled.                                         *)

SpecJoin == Spec /\ WF_vars(JoinExited \/ JoinTimeout)

(* The receive path of app.py: datagrams arrive while the caller starts,   *)
(* stops, closes and drains the queue; it subscribes to nothing through    *)
(* this client object.  The publisher sends updates whose values have the  *)
(* declared types, and anything can arrive that does not decode.           *)

InitStream == Init /\ variant = "app"

StreamDatagrams == { d \in Datagrams : Decode(d) = "ok" => d.typed }

NextStream ==
    \/ start
    \/ stop
    \/ close
    \/ JoinExited
    \/ JoinTimeout
    \/ \E t \in Threads : LoopCheck(t)
    \/ \E t \in Threads : RecvDatagram(t, StreamDatagrams)
    \/ \E t \in Threads : RecvTimeout(t)
    \/ \E t \in Threads : RecvError(t)
    \/ \E t \in Threads : Put(t)
    \/ DrainBegin
    \/ DrainGet
    \/ DrainReturn

SpecStream == InitStream /\ [][NextStream]_vars

(* The loops of app.py with the threads scheduled and a caller that starts, *)
(* stops and closes but does not drain the queue: a thread that can take a *)
(* step takes one.  recvfrom returns or raises within the socket's timeout *)
(* of one second (settimeout(1.0) in __init__), at once on a closed        *)
(* socket.                                                                 *)

\* The datagrams that decode: in app.py one that does not takes the loop
\* from recvfrom to the while test, as a socket fault does.
UpdateDatagrams == { d \in StreamDatagrams : Decode(d) = "ok" }

LoopStep(t) ==
    \/ LoopCheck(t)
    \/ RecvDatagram(t, UpdateDatagrams)
    \/ RecvTimeout(t)
    \/ RecvError(t)
    \/ Put(t)

NextLoop ==
    \/ start
    \/ stop
    \/ close
    \/ JoinExited
    \/ JoinTimeout
    \/ \E t \in Threads : LoopStep(t)

SpecLoop ==
    InitStream /\ [][NextLoop]_vars /\ \A t \in Threads : WF_vars(LoopStep(t))

(* Decoding in app.py: one client is started and stopped while datagrams   *)
(* of every kind arrive, those included whose JSON object has the seven    *)
(* keys and a value of another type than declared.                         *)

NextDecode ==
    \/ start
    \/ stop
    \/ JoinExited
    \/ JoinTimeout
    \/ \E t \in Threads : LoopCheck(t)
    \/ \E t \in Threads : RecvDatagram(t, Datagrams)
    \/ \E t \in Threads : RecvTimeout(t)
    \/ \E t \in Threads : Put(t)

SpecDecode == InitStream /\ [][NextDecode]_vars

(* The receive cycle of both files without a consumer draining: updates    *)
(* arrive, recvfrom times out or fails, the loops hand the updates on.     *)

NextCycle ==
    \/ start
    \/ stop
    \/ close
    \/ JoinExited
    \/ JoinTimeout
    \/ \E t \in Threads : LoopCheck(t)
    \/ \E t \in Threads : RecvDatagram(t, UpdateDatagrams)
    \/ \E t \in Threads : RecvTimeout(t)
    \/ \E t \in Threads : RecvError(t)
    \/ \E t \in Threads : Put(t)
    \/ \E t \in Threads : Handle(t)

SpecCycle == InitSession /\ [][NextCycle]_vars

(* The whole facade of app.py on one client whose joins wait for the loop  *)
(* to end: the caller subscribes, unsubscribes, starts, stops, closes and  *)
(* drains while updates arrive.                                            *)

NextFrame ==
    \/ \E s \in SymbolInputs : subscribe(s)
    \/ \E s \in SymbolInputs : unsubscribe(s)
    \/ start
    \/ stop
    \/ close
    \/ JoinExited
    \/ \E t \in Threads : LoopStep(t)
    \/ DrainBegin
    \/ DrainGet
    \/ DrainReturn

SpecFrame == InitStream /\ [][NextFrame]_vars

(* The drain of app.py with the caller's thread scheduled: a get_nowait    *)
(* that can return or raise does.  Nothing is assumed of the loop threads, *)
(* which put updates in the queue while the drain goes on.                 *)

NextDrain ==
    \/ start
    \/ stop
    \/ JoinExited
    \/ JoinTimeout
    \/ \E t \in Threads : LoopStep(t)
    \/ DrainBegin
    \/ DrainGet
    \/ DrainReturn

SpecDrain ==
    InitStream /\ [][NextDrain]_vars /\ WF_vars(DrainGet \/ DrainReturn)

(* The receive path of both files: as above, and in consume_stream.py the  *)
(* loops hand the updates to on_market_data or the default handler.        *)

NextReceive ==
    \/ NextStream
    \/ \E t \in Threads : Handle(t)

SpecReceive == Init /\ [][NextReceive]_vars

-----------------------------------------------------------------------------
(* Properties of the session and the lifecycle, checked under Spec.        *)

Symbols(cmds) == [i \in 1..Len(cmds) |-> cmds[i].symbol]

\* The symbols of list for which cmds holds no command that was sent.
Unsent(list, cmds) ==
    SelectSeq(list, LAMBDA sym :
        \A i \in 1..Len(cmds) : cmds[i].symbol = sym => ~cmds[i].sent)

\* A stop() call: the caller's, or the one close() / __exit__ makes.
StopCall == stop \/ close

C5_SubscribeNeverRaises ==
    lastOp = "subscribe" =>
        /\ ~raised
        /\ (ret = "True") = outbox[1].sent
        /\ ret = "True" => outbox[1].symbol \in Range(subscribed_symbols)
        /\ ~outbox[1].sent => ret = "False"

\* C6: no symbol is in the list more than once, and the symbol of a subscribe
\* that returned True is in it exactly once, in whatever case it was passed.
C6_AtMostOnce ==
    /\ \A i, j \in 1..Len(subscribed_symbols) :
           i # j => subscribed_symbols[i] # subscribed_symbols[j]
    /\ (lastOp = "subscribe" /\ ret = "True") =>
           Cardinality({ i \in 1..Len(subscribed_symbols) :
                           subscribed_symbols[i] = outbox[1].symbol }) = 1

\* A subscribe("btc" in some case) that succeeded on a list that already held
\* BTC: BTC is not the last element, so this call did not append it.
C6_Witness ==
    /\ lastOp = "subscribe"
    /\ ret = "True"
    /\ outbox[1].symbol = <<"B", "T", "C">>
    /\ subscribed_symbols = << <<"B", "T", "C">>, <<"E", "T", "H">> >>

\* C8: at most one receive-loop thread is alive.
C8_SingleLoop == Cardinality({ t \in Threads : Alive(t) }) <= 1

\* C9: start() on a running client launches no thread and changes nothing of
\* the client; on a client that is not running it sets is_running and
\* launches exactly one thread, which receive_thread then names.
C9_StartIdempotent ==
    [][start =>
        IF is_running
        THEN UNCHANGED <<client, loops>>
        ELSE /\ is_running'
             /\ Cardinality({ t \in Threads :
                    ~Alive(t) /\ tpc'[t] \in {"check", "recv", "put"} }) = 1
             /\ \A t \in Threads : Alive(t) => tpc'[t] = tpc[t]
             /\ receive_thread' \in Threads
             /\ ~Alive(receive_thread')
             /\ tpc'[receive_thread'] = "check"
             /\ UNCHANGED <<sockOpen, subscribed_symbols, data_queue>>]_vars

\* start() was called on a running client, whose one loop is alive.
C9_Witness ==
    /\ lastOp = "start"
    /\ wasRunning
    /\ is_running
    /\ Cardinality({ t \in Threads : Alive(t) }) = 1

\* C10: when start() has launched the loop the socket is open.
C10_StartOpensTransport ==
    (lastOp = "start" /\ ~wasRunning) => sockOpen

-----------------------------------------------------------------------------
(* Properties of the receive path, checked under SpecStream (C2, C3, C7)   *)
(* and SpecReceive (C4).                                                   *)

Ids(items) == [i \in 1..Len(items) |-> items[i].id]

\* What reached or will reach the consumer, oldest first: the lists returned,
\* what the drain in progress has taken from the queue, the queue.
Consumed == returned \o data_list \o data_queue

\* The datagrams a loop has decoded and not yet handed on.
InFlight == { tdata[t].id : t \in { u \in Threads : tpc[u] = "put" } }

\* The decoded datagrams that were handed on, in the order recvfrom returned
\* them.
DecodedIds ==
    SelectSeq([i \in 1..nRecv |-> i], LAMBDA i : rcvd[i] /\ i \notin InFlight)

\* C2: whatever the interleaving of the loops' put and the drain's
\* get_nowait, every update a loop has enqueued is exactly once in the lists
\* returned so far, in the list of the drain in progress, or in the queue, and
\* no update was enqueued twice.
C2_NoLossNoDuplicate ==
    variant = "app" =>
        /\ Consumed = delivered
        /\ \A i, j \in 1..Len(delivered) :
               i # j => delivered[i].id # delivered[j].id

\* A drain in progress holds an update, an earlier drain returned one, and a
\* loop is about to enqueue a third.
C2_Witness ==
    /\ variant = "app"
    /\ callerPc = "drain"
    /\ data_list # <<>>
    /\ returned # <<>>
    /\ \E t \in Threads : tpc[t] = "put"

\* C3: the lists returned so far, then the queue, are the decoded datagrams
\* in the order recvfrom returned them (those a loop still holds aside).
C3_ArrivalOrder == variant = "app" => Ids(Consumed) = DecodedIds

\* C4: a datagram that does not decode puts nothing in the queue and leaves
\* the loop that received it running, and the updates handed on are the
\* datagrams that decoded, in the order received.
C4_MalformedSkipped ==
    /\ [](Ids(delivered) = DecodedIds)
    /\ [][\A t \in Threads :
             (tpc[t] = "recv" /\ nRecv' = nRecv + 1 /\ ~rcvd'[nRecv'])
                 => (tpc'[t] = "check" /\ delivered' = delivered)]_vars

\* C7: when get_latest_data returns the queue is empty, the list it returns
\* (data_list) is what was enqueued since the previous call returned (empty
\* when nothing was), everything enqueued so far has been returned, and it
\* did not raise.
C7_DrainAll ==
    [][DrainReturn =>
        /\ data_queue' = <<>>
        /\ data_list = SubSeq(delivered, Len(returned) + 1, Len(delivered))
        /\ returned' = delivered
        /\ ~raised']_vars

\* A get_latest_data, called after an earlier one returned updates and with
\* nothing enqueued since, has found the queue empty and returns the empty
\* list.
C7_Witness ==
    /\ variant = "app"
    /\ callerPc = "drain"
    /\ data_queue = <<>>
    /\ data_list = <<>>
    /\ returned # <<>>
    /\ returned = delivered

-----------------------------------------------------------------------------
(* Properties of stop() and close(), checked under Spec.                   *)

\* C11: stop() leaves the client not running, and stop() on a client that is
\* not running (never started, or stopped before) passes no command to the
\* socket, does not raise and changes nothing of the client, its loops or the
\* caller's position; so a stop() that follows a stop() does nothing.
C11_StopIdempotent ==
    [][stop =>
        /\ ~is_running'
        /\ ~is_running =>
               /\ outbox' = <<>>
               /\ ~raised'
               /\ UNCHANGED <<client, loops, caller>>]_vars

\* stop() was called on a client that an earlier stop() had stopped with a
\* symbol left in the list: it sent nothing and the symbol is still there.
C11_Witness ==
    /\ lastOp = "stop"
    /\ ~wasRunning
    /\ receive_thread # None
    /\ subscribed_symbols # <<>>
    /\ outbox = <<>>
    /\ callerPc = "idle"

\* C12: a stop() call on a running client attempts one 'stop' command for
\* every symbol of the list as it was at the call, each once and whether or
\* not an earlier send failed, clears is_running and does not raise.
C12_StopSurvivesFailedSend ==
    [][(StopCall /\ is_running) =>
        /\ Symbols(outbox') = subscribed_symbols
        /\ \A i \in 1..Len(outbox') : outbox'[i].action = "stop"
        /\ ~is_running'
        /\ ~raised']_vars

\* C13, checked under SpecJoin: a stop() (the caller's, or the one close()
\* makes) that waits in join returns to its caller, whether the loop thread
\* ends or not.
C13_StopReturns ==
    (callerPc \in {"join_stop", "join_close"}) ~> (callerPc = "idle")

\* stop() has returned without raising while the loop thread it waited for
\* is still in recvfrom: the join timed out.
C13_Witness ==
    /\ lastOp = "stop"
    /\ wasRunning
    /\ ~raised
    /\ callerPc = "idle"
    /\ receive_thread # None
    /\ tpc[receive_thread] = "recv"

\* C14: close() on a client on which start() was never called (receive_thread
\* is still None) does not raise, passes nothing to the socket, launches no
\* thread, returns without waiting and leaves the socket closed.
C14_CloseBeforeStart ==
    [][(close /\ receive_thread = None) =>
        /\ ~raised'
        /\ outbox' = <<>>
        /\ ~sockOpen'
        /\ callerPc' = "idle"
        /\ UNCHANGED <<is_running, receive_thread, loops>>]_vars

\* close() was called on a client that had subscribed and was never started:
\* the socket is closed, no thread exists, the symbol is still listed.
C14_Witness ==
    /\ lastOp = "close"
    /\ receive_thread = None
    /\ \A t \in Threads : tpc[t] = "none"
    /\ subscribed_symbols # <<>>
    /\ ~sockOpen
    /\ ~raised

\* C15: close() performs stop() and then releases the socket.  In a close()
\* call is_running is cleared, every command that was sent went out on the
\* socket while it was open, and the socket is released only once stop() has
\* returned (not while it waits for the loop, not when it raised); whenever
\* the socket goes from open to closed is_running was cleared before; and a
\* close() that follows a close() sends nothing, does not raise, does not
\* wait and leaves the socket closed.
C15_StopBeforeRelease ==
    [][/\ close =>
           /\ ~is_running'
           /\ \A i \in 1..Len(outbox') : outbox'[i].sent => sockOpen
           /\ sockOpen' # sockOpen => (callerPc' = "idle" /\ ~raised')
           /\ lastOp = "close" =>
                  /\ outbox' = <<>>
                  /\ ~raised'
                  /\ ~sockOpen'
                  /\ callerPc' = "idle"
       /\ (sockOpen /\ ~sockOpen') => (~is_running /\ ~is_running')]_vars

\* close() on a running client with two symbols has waited for the loop and
\* returned: both commands were sent, the list is empty, the socket closed.
C15_Witness ==
    /\ lastOp = "close"
    /\ wasRunning
    /\ callerPc = "idle"
    /\ Len(outbox) = 2
    /\ \A i \in 1..Len(outbox) : outbox[i].sent
    /\ subscribed_symbols = <<>>
    /\ ~is_running
    /\ ~sockOpen

-----------------------------------------------------------------------------
(* Properties of unsubscribe and of the symbols' case, checked under Spec. *)

\* list without every occurrence of the symbol sym
Without(list, sym) == SelectSeq(list, LAMBDA x : x # sym)

\* C16 as stated: unsubscribe passes one 'stop' command with the upper-cased
\* symbol to the socket, leaves the list without that symbol whether the send
\* succeeded or not, returns True when it did, and for a symbol that is not
\* in the list returns True with the list unchanged.
C16_UnsubscribeRemoves ==
    [][\A s \in SymbolInputs : unsubscribe(s) =>
        /\ Len(outbox') = 1
        /\ outbox'[1].action = "stop"
        /\ outbox'[1].symbol = Upper(s)
        /\ outbox'[1].sent => ret' = "True"
        /\ subscribed_symbols' = Without(subscribed_symbols, Upper(s))
        /\ Upper(s) \notin Range(subscribed_symbols) => ret' = "True"]_vars

\* C16 amended: unsubscribe passes one 'stop' command with the upper-cased
\* symbol to the socket and returns True exactly when the send succeeded;
\* after a send that succeeded the list is as before without that symbol
\* (unchanged when it was not there, so a second unsubscribe changes nothing
\* more); after a send that failed the list is as before.
C16_UnsubscribeMirrors ==
    [][\A s \in SymbolInputs : unsubscribe(s) =>
        /\ Len(outbox') = 1
        /\ outbox'[1].action = "stop"
        /\ outbox'[1].symbol = Upper(s)
        /\ (ret' = "True") = outbox'[1].sent
        /\ subscribed_symbols' =
               IF outbox'[1].sent THEN Without(subscribed_symbols, Upper(s))
               ELSE subscribed_symbols]_vars

\* An unsubscribe of BTC whose send failed returned False and BTC is still
\* in the list, before ETH.
C16_Witness ==
    /\ lastOp = "unsubscribe"
    /\ ret = "False"
    /\ outbox = << [action |-> "stop", symbol |-> <<"B", "T", "C">>,
                    sent |-> FALSE] >>
    /\ subscribed_symbols = << <<"B", "T", "C">>, <<"E", "T", "H">> >>

\* sym has no lower-case letter
IsUpper(sym) == \A i \in 1..Len(sym) : UpperChar(sym[i]) = sym[i]

\* C17: every command passed to the socket carries an upper-case symbol, with
\* action 'start' when subscribe built it and 'stop' when unsubscribe did
\* (called directly, or by stop() or close()), and every element of the list
\* is upper case, in whatever case the callers passed the symbols.
C17_UpperCase ==
    /\ \A i \in 1..Len(subscribed_symbols) : IsUpper(subscribed_symbols[i])
    /\ \A i \in 1..Len(outbox) :
           /\ IsUpper(outbox[i].symbol)
           /\ outbox[i].action =
                  IF lastOp = "subscribe" THEN "start" ELSE "stop"
           /\ lastOp \in {"subscribe", "unsubscribe", "stop", "close"}

\* subscribe was passed "eth", in lower case: the command that was sent and
\* the list hold ETH.
C17_Witness ==
    /\ lastOp = "subscribe"
    /\ ret = "True"
    /\ outbox = << [action |-> "start", symbol |-> <<"E", "T", "H">>,
                    sent |-> TRUE] >>
    /\ <<"E", "T", "H">> \in Range(subscribed_symbols)

-----------------------------------------------------------------------------
(* Properties of the receive loop, checked under SpecLoop (C18).           *)

\* C18: a loop that is alive when is_running is false ends, unless start()
\* sets the flag again; a loop that reaches the while test with the flag
\* cleared goes nowhere but out, so it completes no recv cycle beyond the
\* one in flight; and a loop hands on at most one update while the flag is
\* cleared.
C18_LoopExits ==
    /\ \A t \in Threads :
           (Alive(t) /\ ~is_running) ~> (~Alive(t) \/ is_running)
    /\ [][\A t \in Threads :
             (tpc[t] = "check" /\ ~is_running /\ tpc'[t] # "check")
                 => tpc'[t] = "done"]_vars
    /\ [](\A t \in Threads : late[t] <= 1)

\* stop() found the loop in recvfrom or about to put; the loop has since put
\* that one update in the queue and is at the while test, about to end.
C18_Witness ==
    /\ lastOp = "stop"
    /\ ~is_running
    /\ receive_thread # None
    /\ tpc[receive_thread] = "check"
    /\ late[receive_thread] = 1
    /\ data_queue # <<>>

\* C19, checked under SpecLoop: a loop whose recvfrom meets a closed socket
\* ends instead of calling recvfrom on it again, and a loop whose recvfrom
\* fails or times out on the open socket goes back to the while test.
C19_ClosedSocketStops ==
    /\ \A t \in Threads : (tpc[t] = "recv" /\ ~sockOpen) ~> ~Alive(t)
    /\ [][\A t \in Threads :
             (tpc[t] = "recv" /\ sockOpen /\ tpc'[t] # "recv")
                 => tpc'[t] \in {"check", "put"}]_vars

-----------------------------------------------------------------------------
(* Properties of the receive loop of both files, checked under SpecReceive *)
(* (C20).                                                                  *)

\* C20: a loop thread ends only by leaving at the while test with is_running
\* false: no timeout, datagram, decoding failure, socket fault or failure of
\* the handler or the observer ends it while the flag is set.
C20_LoopAbsorbsErrors ==
    [][\A t \in Threads :
         (Alive(t) /\ tpc'[t] \notin {"check", "recv", "put"})
             => (~is_running /\ tpc[t] = "check" /\ tpc'[t] = "done")]_vars

-----------------------------------------------------------------------------
(* Properties of decoding, checked under SpecDecode (C21).                 *)

\* C21: every record in the queue came from a JSON object with exactly the
\* seven fields, each value of its declared type.
C21_AllOrNothing ==
    \A i \in 1..Len(data_queue) :
        /\ data_queue[i].d.obj
        /\ data_queue[i].d.keys = Fields
        /\ data_queue[i].d.typed

-----------------------------------------------------------------------------
(* Frame properties, checked under SpecCycle (C22) and SpecFrame (C23).    *)

\* C22: a recvfrom that times out takes the loop back to the while test and
\* nowhere else, whether or not an observer is set (which an error would
\* reach and which could end the thread), and leaves the client, the queue,
\* the other loops, the caller and everything handed on as they were.
C22_TimeoutNoOp ==
    [][\A t \in Threads : RecvTimeout(t) =>
         /\ tpc'[t] = "check"
         /\ \A u \in Threads \ {t} : tpc'[u] = tpc[u]
         /\ UNCHANGED <<client, tdata, late, caller, wire, ghost>>]_vars

\* A loop of a running client is in recvfrom on the open socket, with an
\* update handed on before: the state a timeout now has to leave as it is.
C22_Witness ==
    \E t \in Threads :
        /\ tpc[t] = "recv"
        /\ is_running
        /\ sockOpen
        /\ delivered # <<>>
        /\ ENABLED RecvTimeout(t)

\* C23: a step that changes the list is a subscribe or unsubscribe call or a
\* stop() or close() call on a running client; a step of a loop thread
\* changes neither the list nor what was passed to the socket; start(), the
\* steps of get_latest_data, the return from the join and the release of
\* the socket leave the list as it was.
C23_ListFrame ==
    [][/\ subscribed_symbols' # subscribed_symbols =>
              /\ callerPc = "idle"
              /\ lastOp' \in {"subscribe", "unsubscribe", "stop", "close"}
              /\ lastOp' \in {"stop", "close"} => is_running
              /\ outbox' # <<>>
       /\ (\E t \in Threads : Alive(t) /\ tpc'[t] # tpc[t]) =>
              UNCHANGED <<subscribed_symbols, outbox>>
       /\ (start \/ DrainBegin \/ DrainGet \/ DrainReturn \/ JoinExited
              \/ JoinTimeout \/ sockOpen' # sockOpen) =>
              UNCHANGED subscribed_symbols]_vars

\* close() on a running client left a symbol in the list (its send failed),
\* waited for the loop and released the socket; the loop had handed an
\* update on and a drain had returned it: the symbol is still listed.
C23_Witness ==
    /\ lastOp = "close"
    /\ wasRunning
    /\ callerPc = "idle"
    /\ ~sockOpen
    /\ returned # <<>>
    /\ subscribed_symbols # <<>>

-----------------------------------------------------------------------------
(* Properties of get_latest_data, checked under SpecDrain (C24).           *)

-----------------------------------------------------------------------------
(* Properties of failed sends, checked under Spec (C25).                   *)

\* C25: a subscribe or unsubscribe call whose send failed leaves the list as
\* it was, whether it returned False or raised; and in every step a symbol
\* that enters the list has a 'start' command that was sent in this step, a
\* symbol that leaves it a 'stop' command that was sent in this step.
C25_FailedSendKeepsList ==
    [][/\ ( /\ lastOp' \in {"subscribe", "unsubscribe"}
             /\ Len(outbox') = 1
             /\ ~outbox'[1].sent )
              => subscribed_symbols' = subscribed_symbols
       /\ \A x \in Range(subscribed_symbols') \ Range(subscribed_symbols) :
              [action |-> "start", symbol |-> x, sent |-> TRUE]
                  \in Range(outbox')
       /\ \A x \in Range(subscribed_symbols) \ Range(subscribed_symbols') :
              [action |-> "stop", symbol |-> x, sent |-> TRUE]
                  \in Range(outbox')]_vars

\* A subscribe of BTC whose send failed returned False, with ETH subscribed
\* before: the list holds ETH alone.
C25_Witness ==
    /\ lastOp = "subscribe"
    /\ ret = "False"
    /\ outbox = << [action |-> "start", symbol |-> <<"B", "T", "C">>,
                    sent |-> FALSE] >>
    /\ subscribed_symbols = << <<"E", "T", "H">> >>

-----------------------------------------------------------------------------
(* Properties of the dashboard's history, checked under SpecDashboard      *)
(* (C26).                                                                  *)

\* The drained updates of one symbol, in arrival order.
DrainedOf(s) == SelectSeq(drained, LAMBDA d : d.symbol = s)

\* The last n elements of a sequence, all of them when it has fewer.
LastN(seq, n) ==
    IF Len(seq) <= n THEN seq ELSE SubSeq(seq, Len(seq) - n + 1, Len(seq))

\* C26: after every update_market_data() call the history kept for each
\* symbol has at most 100 entries, they are the most recently drained
\* updates of that symbol in arrival order, and market_data[symbol] is the
\* last drained update of that symbol.
C26_HistoryBounded ==
    lastOp = "update_market_data" =>
        \A s \in DataSymbols :
            LET of == LastN(DrainedOf(s), HistoryLimit)
            IN  /\ Len(price_history[s]) <= HistoryLimit
                /\ price_history[s] = [i \in 1..Len(of) |-> Entry(of[i])]
                /\ market_data[s] =
                       IF of = <<>> THEN NoUpdate ELSE of[Len(of)]

-----------------------------------------------------------------------------
(* Properties of the synchronous database wrappers, checked under SpecDb   *)
(* (C27).                                                                  *)

\* The wrapper's call has ended.
Ended == wrapper \in Wrappers /\ dbPc = "idle"

\* C27: each wrapper attempts its operation at most twice; a call whose
\* first attempt failed cleaned up once and retried once; a query wrapper
\* raises exactly when both attempts failed; check_db_health_sync never
\* raises and returns False after a second failure.
C27_RetryOnce ==
    /\ Len(attempts) <= 2
    /\ Ended =>
        /\ ( Len(attempts) >= 1 /\ ~attempts[1] ) =>
               cleanups = 1 /\ Len(attempts) = 2
        /\ dbRet = "raised" <=>
               /\ wrapper # "check_db_health_sync"
               /\ attempts = <<FALSE, FALSE>>
        /\ ( wrapper = "check_db_health_sync"
               /\ attempts = <<FALSE, FALSE>> ) => dbRet = "False"
====
